---- MODULE Spec2Model ----
(***************************************************************************)
(* Model of the Wi-Fi safe-change guardrail engine (planner.cpp):          *)
(* SafeChangePlanner with its map network_state and the three operations   *)
(* add_ap, get_ap_state and process_request.                               *)
(*                                                                         *)
(* The program returns a bool from process_request and tells the reason   *)
(* of a rejection only on std::cout; the variable log holds the tag of     *)
(* the message the call printed, named after the reason tags of the       *)
(* design document (PeakHourBlocked, BudgetExceeded, HysteresisBlocked).   *)
(***************************************************************************)
EXTENDS Integers, Sequences, FiniteSets, TLC

(* ------------------------------------------------------------------ *)
(* Configuration (planner.cpp lines 8-10)                             *)
(* ------------------------------------------------------------------ *)
CHANGE_BUDGET_MINUTES == 4 * 60

HYSTERESIS_THRESHOLD_DB == 2

(* AccessPoint::last_change_time_minutes default member initializer *)
DefaultLastChange == -CHANGE_BUDGET_MINUTES - 1

(* Range of the type int of current_time_minutes and of the timestamps *)
INT_MAX == 2147483647

INT_MIN == -INT_MAX - 1

(* ------------------------------------------------------------------ *)
(* Input domains                                                      *)
(* ------------------------------------------------------------------ *)
(* Largest distance, in dB, between two power values of the model *)
MaxPowerStep == 2

(* Power of AP-001 in main() *)
BasePower == 20

Powers == BasePower .. (BasePower + MaxPowerStep)

(* Two of the channels main() uses: the code only compares channels for
   equality *)
Channels == {6, 11}

(* Times supplied by the caller, in no particular order: 0, the two sides of
   the change-budget boundary of a device last changed at 0, and main()'s 500 *)
Times == {0, 239, 240, 500}

(* Timestamps a caller registers a device with: the default and main()'s 0 *)
RegisteredTimes == {DefaultLastChange, 0}

(* The identifier main() uses; it names no device until add_ap runs *)
Ids == {"AP-001"}

(* Two callers that may be inside process_request at the same time *)
Threads == {"t1", "t2"}

(* A thread that is not inside a call *)
IdleThread == [pc |-> "idle"]

(* ------------------------------------------------------------------ *)
(* Data structures                                                    *)
(* ------------------------------------------------------------------ *)
(* std::optional<int>: the empty sequence is std::nullopt, <<v>> holds v *)
nullopt == << >>

has_value(o) == o # << >>

value(o) == o[1]

Optional(S) == {nullopt} \cup {<<v>> : v \in S}

AccessPoint(ids) ==
    [id : ids, channel : Channels, power_db : Powers,
     last_change_time_minutes : RegisteredTimes]

ChangeRequest ==
    [new_channel : Optional(Channels), new_power_db : Optional(Powers),
     is_emergency : BOOLEAN]

(* ------------------------------------------------------------------ *)
(* State                                                              *)
(* ------------------------------------------------------------------ *)
VARIABLES
    network_state,  \* std::map<std::string, AccessPoint>: id -> record
    call,           \* the last operation called, with its arguments
    ret,            \* what that call returned
    log,            \* tag of the outcome message that call printed
    old_state,      \* network_state when that call began
    threads         \* per caller thread: where it is inside process_request

vars == <<network_state, call, ret, log, old_state, threads>>

(* std::abs on int *)
Abs(x) == IF x < 0 THEN -x ELSE x

(* current_time_minutes - ap.last_change_time_minutes leaves the range of
   int: signed overflow, undefined behaviour *)
SubOverflows(a, b) ==
    \/ b < 0 /\ a > INT_MAX + b
    \/ b > 0 /\ a < INT_MIN + b

(* ------------------------------------------------------------------ *)
(* The three rules of process_request                                 *)
(* ------------------------------------------------------------------ *)
(* Mutant: the emergency flag is not consulted *)
PeakHourBlocked_IgnoresEmergency(request, is_peak_hour) ==
    is_peak_hour

(* Rule 1: Time Windows *)
PeakHourBlocked(request, is_peak_hour) ==
    is_peak_hour /\ ~request.is_emergency

(* Mutant: the distance to the last change is taken in absolute value *)
BudgetExceeded_Abs(ap, current_time_minutes) ==
    {Abs(current_time_minutes - ap.last_change_time_minutes)
       < CHANGE_BUDGET_MINUTES}

(* Mutant: the comparison is <= instead of < *)
BudgetExceeded_Inclusive(ap, current_time_minutes) ==
    {current_time_minutes - ap.last_change_time_minutes
       <= CHANGE_BUDGET_MINUTES}

(* Rule 2: Change Budgets. The set of truth values the test
   time_since_last_change < CHANGE_BUDGET_MINUTES can take: one when the
   subtraction is defined, either when it overflows. *)
BudgetExceeded(ap, current_time_minutes) ==
    IF SubOverflows(current_time_minutes, ap.last_change_time_minutes)
    THEN BOOLEAN
    ELSE {current_time_minutes - ap.last_change_time_minutes
            < CHANGE_BUDGET_MINUTES}

(* Mutant: the rule is applied only to power-only requests *)
HysteresisBlocked_PowerOnly(ap, request) ==
    /\ has_value(request.new_power_db)
    /\ ~has_value(request.new_channel)
    /\ Abs(value(request.new_power_db) - ap.power_db) < HYSTERESIS_THRESHOLD_DB

(* Mutant: an absent power is read as the current power
   (value_or(ap.power_db)), so the rule also runs on channel-only requests *)
HysteresisBlocked_ValueOr(ap, request) ==
    LET p == IF has_value(request.new_power_db)
             THEN value(request.new_power_db) ELSE ap.power_db
    IN  Abs(p - ap.power_db) < HYSTERESIS_THRESHOLD_DB

(* Mutant: a request for the current power is let through as a no-op *)
HysteresisBlocked_SkipsEqual(ap, request) ==
    /\ has_value(request.new_power_db)
    /\ value(request.new_power_db) # ap.power_db
    /\ Abs(value(request.new_power_db) - ap.power_db) < HYSTERESIS_THRESHOLD_DB

(* Rule 3: Hysteresis *)
HysteresisBlocked(ap, request) ==
    /\ has_value(request.new_power_db)
    /\ Abs(value(request.new_power_db) - ap.power_db) < HYSTERESIS_THRESHOLD_DB

(* Mutant: the budget rule is skipped for emergency requests *)
Decision_EmergencySkipsBudget(ap, request, is_peak_hour, budget_exceeded) ==
    IF PeakHourBlocked(request, is_peak_hour) THEN "PeakHourBlocked"
    ELSE IF budget_exceeded /\ ~request.is_emergency THEN "BudgetExceeded"
    ELSE IF HysteresisBlocked(ap, request) THEN "HysteresisBlocked"
    ELSE "Accepted"

(* Mutant: an emergency request bypasses every rule *)
Decision_EmergencyBypassesAll(ap, request, is_peak_hour, budget_exceeded) ==
    IF request.is_emergency THEN "Accepted"
    ELSE IF is_peak_hour THEN "PeakHourBlocked"
    ELSE IF budget_exceeded THEN "BudgetExceeded"
    ELSE IF HysteresisBlocked(ap, request) THEN "HysteresisBlocked"
    ELSE "Accepted"

(* Mutant: the budget rule runs before the time-window rule *)
Decision_BudgetFirst(ap, request, is_peak_hour, budget_exceeded) ==
    IF budget_exceeded THEN "BudgetExceeded"
    ELSE IF PeakHourBlocked(request, is_peak_hour) THEN "PeakHourBlocked"
    ELSE IF HysteresisBlocked(ap, request) THEN "HysteresisBlocked"
    ELSE "Accepted"

(* Mutant: the hysteresis rule runs before the budget rule *)
Decision_HysteresisFirst(ap, request, is_peak_hour, budget_exceeded) ==
    IF PeakHourBlocked(request, is_peak_hour) THEN "PeakHourBlocked"
    ELSE IF HysteresisBlocked(ap, request) THEN "HysteresisBlocked"
    ELSE IF budget_exceeded THEN "BudgetExceeded"
    ELSE "Accepted"

(* The outcome of the rule chain, in the order of the code; budget_exceeded
   is the truth value of the budget test. *)
Decision(ap, request, is_peak_hour, budget_exceeded) ==
    IF PeakHourBlocked(request, is_peak_hour) THEN "PeakHourBlocked"
    ELSE IF budget_exceeded THEN "BudgetExceeded"
    ELSE IF HysteresisBlocked(ap, request) THEN "HysteresisBlocked"
    ELSE "Accepted"

(* Mutant: the timestamp is set on every accepted request *)
Applied_AlwaysStamps(ap, request, current_time_minutes) ==
    [id |-> ap.id,
     channel  |-> IF has_value(request.new_channel)
                  THEN value(request.new_channel) ELSE ap.channel,
     power_db |-> IF has_value(request.new_power_db)
                  THEN value(request.new_power_db) ELSE ap.power_db,
     last_change_time_minutes |-> current_time_minutes]

(* Mutant: a power change is applied only when no channel change was *)
Applied_ElseIfPower(ap, request, current_time_minutes) ==
    LET chg_channel == has_value(request.new_channel)
                         /\ ap.channel # value(request.new_channel)
        chg_power   == ~chg_channel
                         /\ has_value(request.new_power_db)
                         /\ ap.power_db # value(request.new_power_db)
        changed     == chg_channel \/ chg_power
    IN  [id |-> ap.id,
         channel  |-> IF chg_channel THEN value(request.new_channel)
                      ELSE ap.channel,
         power_db |-> IF chg_power THEN value(request.new_power_db)
                      ELSE ap.power_db,
         last_change_time_minutes |->
             IF changed THEN current_time_minutes
             ELSE ap.last_change_time_minutes]

(* "All Rules Passed": the record after the accepted request is applied *)
Applied(ap, request, current_time_minutes) ==
    LET chg_channel == has_value(request.new_channel)
                         /\ ap.channel # value(request.new_channel)
        chg_power   == has_value(request.new_power_db)
                         /\ ap.power_db # value(request.new_power_db)
        changed     == chg_channel \/ chg_power
    IN  [id |-> ap.id,
         channel  |-> IF chg_channel THEN value(request.new_channel)
                      ELSE ap.channel,
         power_db |-> IF chg_power THEN value(request.new_power_db)
                      ELSE ap.power_db,
         last_change_time_minutes |->
             IF changed THEN current_time_minutes
             ELSE ap.last_change_time_minutes]

(* Mutant: the channel and power are written before the hysteresis rule
   returns *)
RecordAfter_WritesBeforeHysteresis(ap, request, current_time_minutes, decision) ==
    IF decision \in {"Accepted", "HysteresisBlocked"}
    THEN Applied(ap, request, current_time_minutes)
    ELSE ap

(* The record process_request leaves behind: every rejecting branch returns
   before the first assignment to ap *)
RecordAfter(ap, request, current_time_minutes, decision) ==
    IF decision = "Accepted"
    THEN Applied(ap, request, current_time_minutes)
    ELSE ap

(* ------------------------------------------------------------------ *)
(* Operations                                                         *)
(* ------------------------------------------------------------------ *)
Init ==
    /\ network_state = << >>
    /\ call = [op |-> "none"]
    /\ ret = FALSE
    /\ log = "none"
    /\ old_state = << >>
    /\ threads = [t \in Threads |-> IdleThread]

(* Mutant: network_state.insert({ap.id, ap}), which keeps an existing record *)
add_ap_Insert(ap) ==
    /\ network_state' =
         [i \in (DOMAIN network_state) \cup {ap.id} |->
             IF i \in DOMAIN network_state THEN network_state[i] ELSE ap]
    /\ call' = [op |-> "add_ap", ap |-> ap]
    /\ ret' = TRUE
    /\ log' = "Added"
    /\ old_state' = network_state

(* network_state[ap.id] = ap *)
add_ap(ap) ==
    /\ network_state' =
         [i \in (DOMAIN network_state) \cup {ap.id} |->
             IF i = ap.id THEN ap ELSE network_state[i]]
    /\ call' = [op |-> "add_ap", ap |-> ap]
    /\ ret' = TRUE
    /\ log' = "Added"
    /\ old_state' = network_state

(* Mutant: network_state[ap_id] instead of at(ap_id): an absent key gets a
   value-initialized record *)
get_ap_state_OperatorIndex(ap_id) ==
    LET created == [id |-> "", channel |-> 0, power_db |-> 0,
                    last_change_time_minutes |-> DefaultLastChange]
    IN  /\ call' = [op |-> "get_ap_state", ap_id |-> ap_id]
        /\ network_state' =
             [i \in (DOMAIN network_state) \cup {ap_id} |->
                 IF i \in DOMAIN network_state THEN network_state[i]
                 ELSE created]
        /\ ret' = network_state'[ap_id]
        /\ log' = "Returned"
        /\ old_state' = network_state

(* return network_state.at(ap_id): throws std::out_of_range when absent *)
get_ap_state(ap_id) ==
    /\ call' = [op |-> "get_ap_state", ap_id |-> ap_id]
    /\ IF ap_id \in DOMAIN network_state
       THEN ret' = network_state[ap_id] /\ log' = "Returned"
       ELSE ret' = FALSE /\ log' = "out_of_range"
    /\ old_state' = network_state
    /\ UNCHANGED network_state

(* Mutant: the find() test is missing and the record is fetched with
   network_state[ap_id], which creates a value-initialized record *)
process_request_OperatorIndex(ap_id, request, current_time_minutes, is_peak_hour) ==
    LET created == [id |-> "", channel |-> 0, power_db |-> 0,
                    last_change_time_minutes |-> DefaultLastChange]
        ap == IF ap_id \in DOMAIN network_state
              THEN network_state[ap_id] ELSE created
    IN  /\ call' = [op |-> "process_request", ap_id |-> ap_id,
                    request |-> request,
                    current_time_minutes |-> current_time_minutes,
                    is_peak_hour |-> is_peak_hour]
        /\ old_state' = network_state
        /\ \E budget_exceeded \in BudgetExceeded(ap, current_time_minutes) :
              LET decision ==
                    Decision(ap, request, is_peak_hour, budget_exceeded)
              IN  /\ log' = decision
                  /\ ret' = (decision = "Accepted")
                  /\ network_state' =
                       [i \in (DOMAIN network_state) \cup {ap_id} |->
                          IF i = ap_id
                          THEN RecordAfter(ap, request, current_time_minutes,
                                           decision)
                          ELSE network_state[i]]

(* Mutant: one last-change time is kept for the whole planner: the budget
   is measured from the latest change of any device *)
process_request_SharedBudget(ap_id, request, current_time_minutes, is_peak_hour) ==
    /\ call' = [op |-> "process_request", ap_id |-> ap_id,
                request |-> request,
                current_time_minutes |-> current_time_minutes,
                is_peak_hour |-> is_peak_hour]
    /\ old_state' = network_state
    /\ IF ap_id \notin DOMAIN network_state
       THEN /\ ret' = FALSE
            /\ log' = "NotFound"
            /\ UNCHANGED network_state
       ELSE LET ap == network_state[ap_id]
                stamps == {network_state[i].last_change_time_minutes :
                             i \in DOMAIN network_state}
                latest == CHOOSE t \in stamps : \A u \in stamps : u <= t
                shared == [ap EXCEPT !.last_change_time_minutes = latest]
            IN
            \E budget_exceeded \in BudgetExceeded(shared, current_time_minutes) :
              LET decision ==
                    Decision(ap, request, is_peak_hour, budget_exceeded)
              IN  /\ log' = decision
                  /\ ret' = (decision = "Accepted")
                  /\ network_state' =
                       [network_state EXCEPT ![ap_id] =
                          RecordAfter(ap, request, current_time_minutes,
                                      decision)]

process_request(ap_id, request, current_time_minutes, is_peak_hour) ==
    /\ call' = [op |-> "process_request", ap_id |-> ap_id,
                request |-> request,
                current_time_minutes |-> current_time_minutes,
                is_peak_hour |-> is_peak_hour]
    /\ old_state' = network_state
    /\ IF ap_id \notin DOMAIN network_state
       THEN /\ ret' = FALSE
            /\ log' = "NotFound"
            /\ UNCHANGED network_state
       ELSE LET ap == network_state[ap_id] IN
            \E budget_exceeded \in BudgetExceeded(ap, current_time_minutes) :
              LET decision ==
                    Decision(ap, request, is_peak_hour, budget_exceeded)
              IN  /\ log' = decision
                  /\ ret' = (decision = "Accepted")
                  /\ network_state' =
                       [network_state EXCEPT ![ap_id] =
                          RecordAfter(ap, request, current_time_minutes,
                                      decision)]

(* One caller, as in main(): every call runs from entry to return *)
Next ==
    \/ \E ap \in AccessPoint(Ids) : add_ap(ap) /\ UNCHANGED threads
    \/ \E ap_id \in Ids : get_ap_state(ap_id) /\ UNCHANGED threads
    \/ \E ap_id \in Ids, request \in ChangeRequest,
          current_time_minutes \in Times, is_peak_hour \in BOOLEAN :
            /\ process_request(ap_id, request, current_time_minutes,
                               is_peak_hour)
            /\ UNCHANGED threads

Spec == Init /\ [][Next]_vars

(* ------------------------------------------------------------------ *)
(* Two devices in the map, with fewer values for each input           *)
(* ------------------------------------------------------------------ *)
MultiIds == {"AP-001", "AP-002"}

(* A power and the nearest one the hysteresis rule lets through *)
MultiPowers == {BasePower, BasePower + HYSTERESIS_THRESHOLD_DB}

MultiTimes == {0, CHANGE_BUDGET_MINUTES}

MultiAccessPoint ==
    {ap \in AccessPoint(MultiIds) : ap.power_db \in MultiPowers}

MultiRequests ==
    {request \in ChangeRequest :
        /\ ~request.is_emergency
        /\ has_value(request.new_power_db) =>
              value(request.new_power_db) \in MultiPowers}

NextMulti ==
    \/ \E ap \in MultiAccessPoint : add_ap(ap) /\ UNCHANGED threads
    \/ \E ap_id \in MultiIds : get_ap_state(ap_id) /\ UNCHANGED threads
    \/ \E ap_id \in MultiIds, request \in MultiRequests,
          current_time_minutes \in MultiTimes, is_peak_hour \in BOOLEAN :
            /\ process_request(ap_id, request, current_time_minutes,
                               is_peak_hour)
            /\ UNCHANGED threads

SpecMulti == Init /\ [][NextMulti]_vars

(* ------------------------------------------------------------------ *)
(* Times up to the end of the range of int                            *)
(* ------------------------------------------------------------------ *)
(* INT_MAX + DefaultLastChange is the last time whose distance to the
   default timestamp still fits in an int *)
WideTimes ==
    {0, CHANGE_BUDGET_MINUTES, INT_MAX + DefaultLastChange,
     INT_MAX + DefaultLastChange + 1, INT_MAX}

NextWide ==
    \/ \E ap \in AccessPoint(Ids) : add_ap(ap) /\ UNCHANGED threads
    \/ \E ap_id \in Ids : get_ap_state(ap_id) /\ UNCHANGED threads
    \/ \E ap_id \in Ids, request \in ChangeRequest,
          current_time_minutes \in WideTimes, is_peak_hour \in BOOLEAN :
            /\ process_request(ap_id, request, current_time_minutes,
                               is_peak_hour)
            /\ UNCHANGED threads

SpecWide == Init /\ [][NextWide]_vars

(* ------------------------------------------------------------------ *)
(* The device, the requests and the times of main(), called in any    *)
(* order                                                              *)
(* ------------------------------------------------------------------ *)
ap1 == [id |-> "AP-001", channel |-> 6, power_db |-> 20,
        last_change_time_minutes |-> 0]

req1 == [new_channel |-> <<11>>, new_power_db |-> nullopt,
         is_emergency |-> FALSE]

req2 == [new_channel |-> <<11>>, new_power_db |-> nullopt,
         is_emergency |-> FALSE]

req3 == [new_channel |-> nullopt, new_power_db |-> <<21>>,
         is_emergency |-> FALSE]

req4 == [new_channel |-> nullopt, new_power_db |-> <<22>>,
         is_emergency |-> FALSE]

req5 == [new_channel |-> <<1>>, new_power_db |-> nullopt,
         is_emergency |-> FALSE]

req6 == [new_channel |-> <<1>>, new_power_db |-> nullopt,
         is_emergency |-> TRUE]

req7 == [new_channel |-> <<6>>, new_power_db |-> nullopt,
         is_emergency |-> FALSE]

MainRequests == {req1, req2, req3, req4, req5, req6, req7}

MainTimes == {100, 250, 500, 800, 1100}

(* The seven process_request calls of main(), in program order *)
MainCalls ==
    << [request |-> req1, current_time_minutes |-> 100, is_peak_hour |-> FALSE],
       [request |-> req2, current_time_minutes |-> 250, is_peak_hour |-> FALSE],
       [request |-> req3, current_time_minutes |-> 500, is_peak_hour |-> FALSE],
       [request |-> req4, current_time_minutes |-> 500, is_peak_hour |-> FALSE],
       [request |-> req5, current_time_minutes |-> 800, is_peak_hour |-> TRUE],
       [request |-> req6, current_time_minutes |-> 800, is_peak_hour |-> TRUE],
       [request |-> req7, current_time_minutes |-> 1100, is_peak_hour |-> FALSE] >>

NextMain ==
    \/ add_ap(ap1) /\ UNCHANGED threads
    \/ get_ap_state(ap1.id) /\ UNCHANGED threads
    \/ \E request \in MainRequests, current_time_minutes \in MainTimes,
          is_peak_hour \in BOOLEAN :
            /\ process_request(ap1.id, request, current_time_minutes,
                               is_peak_hour)
            /\ UNCHANGED threads

SpecMain == Init /\ [][NextMain]_vars

(* ------------------------------------------------------------------ *)
(* Two callers inside process_request at once. The class holds no     *)
(* lock, so the calls interleave between their accesses to the record *)
(* ap refers to; each action below is one such access with the local  *)
(* computation around it.                                             *)
(* ------------------------------------------------------------------ *)
ConcurrentRequests == {req1, req3, req4}

ConcurrentTimes == {CHANGE_BUDGET_MINUTES, 250}

Return(t, result) ==
    threads' = [threads EXCEPT ![t].pc = "done", ![t].ret = result]

(* Lines 52-72: entry, the find() test, the reference ap, Rule 1 *)
pr_enter(t, ap_id, request, current_time_minutes, is_peak_hour) ==
    /\ threads[t].pc \in {"idle", "done"}
    /\ LET entered == [pc |-> "rule2", ap_id |-> ap_id, request |-> request,
                       current_time_minutes |-> current_time_minutes,
                       is_peak_hour |-> is_peak_hour,
                       observed |-> << >>, changed |-> FALSE, ret |-> FALSE]
       IN  threads' =
             [threads EXCEPT ![t] =
                IF \/ ap_id \notin DOMAIN network_state
                   \/ PeakHourBlocked(request, is_peak_hour)
                THEN [entered EXCEPT !.pc = "done"]
                ELSE entered]
    /\ UNCHANGED <<network_state, call, ret, log, old_state>>

(* Lines 74-80: Rule 2 reads ap.last_change_time_minutes *)
pr_rule2(t) ==
    /\ threads[t].pc = "rule2"
    /\ LET ap == network_state[threads[t].ap_id] IN
       \E budget_exceeded \in
             BudgetExceeded(ap, threads[t].current_time_minutes) :
          threads' =
            [threads EXCEPT
               ![t].observed = <<ap.last_change_time_minutes>>,
               ![t].pc = IF budget_exceeded THEN "done" ELSE "rule3"]
    /\ UNCHANGED <<network_state, call, ret, log, old_state>>

(* Lines 82-93: Rule 3 reads ap.power_db *)
pr_rule3(t) ==
    /\ threads[t].pc = "rule3"
    /\ LET ap == network_state[threads[t].ap_id] IN
       threads' =
         [threads EXCEPT
            ![t].pc = IF HysteresisBlocked(ap, threads[t].request)
                      THEN "done" ELSE "channel"]
    /\ UNCHANGED <<network_state, call, ret, log, old_state>>

(* Lines 95-100: the channel is compared and written *)
pr_channel(t) ==
    /\ threads[t].pc = "channel"
    /\ LET ap == network_state[threads[t].ap_id]
           request == threads[t].request
           differs == has_value(request.new_channel)
                        /\ ap.channel # value(request.new_channel)
       IN  /\ network_state' =
                IF differs
                THEN [network_state EXCEPT
                        ![threads[t].ap_id].channel = value(request.new_channel)]
                ELSE network_state
           /\ threads' = [threads EXCEPT ![t].pc = "power",
                                         ![t].changed = differs]
    /\ UNCHANGED <<call, ret, log, old_state>>

(* Lines 102-106: the power is compared and written *)
pr_power(t) ==
    /\ threads[t].pc = "power"
    /\ LET ap == network_state[threads[t].ap_id]
           request == threads[t].request
           differs == has_value(request.new_power_db)
                        /\ ap.power_db # value(request.new_power_db)
       IN  /\ network_state' =
                IF differs
                THEN [network_state EXCEPT
                        ![threads[t].ap_id].power_db =
                            value(request.new_power_db)]
                ELSE network_state
           /\ threads' = [threads EXCEPT
                            ![t].pc = "stamp",
                            ![t].changed = threads[t].changed \/ differs]
    /\ UNCHANGED <<call, ret, log, old_state>>

(* Lines 108-114: the timestamp is written when changed, and true returned *)
pr_stamp(t) ==
    /\ threads[t].pc = "stamp"
    /\ network_state' =
         IF threads[t].changed
         THEN [network_state EXCEPT
                 ![threads[t].ap_id].last_change_time_minutes =
                     threads[t].current_time_minutes]
         ELSE network_state
    /\ Return(t, TRUE)
    /\ UNCHANGED <<call, ret, log, old_state>>

(* Registration happens while no call is running, and starts a new history *)
NextConcurrent ==
    \/ /\ \A t \in Threads : threads[t].pc \in {"idle", "done"}
       /\ add_ap(ap1)
       /\ threads' = [t \in Threads |-> IdleThread]
    \/ \E t \in Threads, request \in ConcurrentRequests,
          current_time_minutes \in ConcurrentTimes, is_peak_hour \in BOOLEAN :
            pr_enter(t, ap1.id, request, current_time_minutes, is_peak_hour)
    \/ \E t \in Threads : pr_rule2(t)
    \/ \E t \in Threads : pr_rule3(t)
    \/ \E t \in Threads : pr_channel(t)
    \/ \E t \in Threads : pr_power(t)
    \/ \E t \in Threads : pr_stamp(t)

SpecConcurrent == Init /\ [][NextConcurrent]_vars

(* The same callers when each call holds a lock on the store from entry to
   return: no call begins while another is between entry and return *)
NextSerialized ==
    \/ /\ \A t \in Threads : threads[t].pc \in {"idle", "done"}
       /\ add_ap(ap1)
       /\ threads' = [t \in Threads |-> IdleThread]
    \/ \E t \in Threads, request \in ConcurrentRequests,
          current_time_minutes \in ConcurrentTimes, is_peak_hour \in BOOLEAN :
            /\ \A u \in Threads : threads[u].pc \in {"idle", "done"}
            /\ pr_enter(t, ap1.id, request, current_time_minutes, is_peak_hour)
    \/ \E t \in Threads : pr_rule2(t)
    \/ \E t \in Threads : pr_rule3(t)
    \/ \E t \in Threads : pr_channel(t)
    \/ \E t \in Threads : pr_power(t)
    \/ \E t \in Threads : pr_stamp(t)

SpecSerialized == Init /\ [][NextSerialized]_vars

(* ================================================================== *)
(* Properties                                                         *)
(* ================================================================== *)
(* The last call was process_request on a registered device *)
Requested ==
    /\ call.op = "process_request"
    /\ call.ap_id \in DOMAIN old_state

Pre == old_state[call.ap_id]

Post == network_state[call.ap_id]

Req == call.request

Now == call.current_time_minutes

Peak == call.is_peak_hour

Rejected == ret = FALSE

Accepted == ret = TRUE

Elapsed == Now - Pre.last_change_time_minutes

PeakPasses == ~Peak \/ Req.is_emergency

PowerDelta == Abs(value(Req.new_power_db) - Pre.power_db)

(* C1: when process_request rejects a request on a registered device, for
   whatever policy reason, the stored record of that device (id, channel,
   power_db, last_change_time_minutes) is the same after the call as it was
   before the call. *)
C1_RejectionLeavesRecord ==
    Requested /\ Rejected =>
        /\ Post.id = Pre.id
        /\ Post.channel = Pre.channel
        /\ Post.power_db = Pre.power_db
        /\ Post.last_change_time_minutes = Pre.last_change_time_minutes
        /\ DOMAIN network_state = DOMAIN old_state

(* A request that asks for another channel and a power too close to the
   current one was rejected by the last rule *)
C1_Witness ==
    /\ Requested /\ Rejected
    /\ log = "HysteresisBlocked"
    /\ has_value(Req.new_channel)
    /\ value(Req.new_channel) # Pre.channel
    /\ value(Req.new_power_db) # Pre.power_db

(* C2, as stated: a request at current_time_minutes <
   last_change_time_minutes + CHANGE_BUDGET_MINUTES is always rejected with
   BudgetExceeded, whatever the channel, power, is_emergency and
   is_peak_hour. *)
C2_Original ==
    Requested /\ Now < Pre.last_change_time_minutes + CHANGE_BUDGET_MINUTES =>
        Rejected /\ log = "BudgetExceeded"

(* C2, amended: such a request is always rejected, with BudgetExceeded
   unless it is a non-emergency request in peak hour, which is rejected
   with PeakHourBlocked. *)
C2_BudgetRejects ==
    Requested /\ Now < Pre.last_change_time_minutes + CHANGE_BUDGET_MINUTES =>
        /\ Rejected
        /\ log = IF Peak /\ ~Req.is_emergency
                 THEN "PeakHourBlocked" ELSE "BudgetExceeded"

(* An emergency request in peak hour, one minute short of the budget, with
   a channel change and a power change large enough for the hysteresis rule *)
C2_Witness ==
    /\ Requested
    /\ Now = Pre.last_change_time_minutes + CHANGE_BUDGET_MINUTES - 1
    /\ Peak /\ Req.is_emergency
    /\ has_value(Req.new_channel) /\ value(Req.new_channel) # Pre.channel
    /\ has_value(Req.new_power_db)
    /\ PowerDelta >= HYSTERESIS_THRESHOLD_DB
    /\ log = "BudgetExceeded"

(* C3: a non-emergency request evaluated with is_peak_hour true on a
   registered device is rejected with PeakHourBlocked, also when it would
   fail the change-budget or the hysteresis rule. *)
C3_PeakHourFirst ==
    Requested /\ Peak /\ ~Req.is_emergency =>
        Rejected /\ log = "PeakHourBlocked"

(* A peak-hour request that is also within the budget and below the
   hysteresis threshold *)
C3_Witness ==
    /\ Requested /\ Peak /\ ~Req.is_emergency
    /\ Now - Pre.last_change_time_minutes < CHANGE_BUDGET_MINUTES
    /\ has_value(Req.new_power_db)
    /\ PowerDelta < HYSTERESIS_THRESHOLD_DB
    /\ log = "PeakHourBlocked"

(* C4, as stated: a request with new_power_db present and
   abs(new_power_db - power_db) < 2 is rejected with HysteresisBlocked,
   whatever its channel field. *)
C4_Original ==
    Requested /\ has_value(Req.new_power_db) /\ PowerDelta < 2 =>
        Rejected /\ log = "HysteresisBlocked"

(* C4, amended: such a request is always rejected, whatever its channel
   field: with HysteresisBlocked when it passes the peak-hour and the
   change-budget rule, and else with the reason of the first of these two
   rules that fails. *)
C4_HysteresisRejects ==
    Requested /\ has_value(Req.new_power_db) /\ PowerDelta < 2 =>
        /\ Rejected
        /\ log = IF Peak /\ ~Req.is_emergency THEN "PeakHourBlocked"
                 ELSE IF Now - Pre.last_change_time_minutes
                           < CHANGE_BUDGET_MINUTES THEN "BudgetExceeded"
                 ELSE "HysteresisBlocked"

(* A power step of 1 dB together with a channel change, past the budget
   and outside peak hour *)
C4_Witness ==
    /\ Requested /\ has_value(Req.new_power_db) /\ PowerDelta = 1
    /\ has_value(Req.new_channel) /\ value(Req.new_channel) # Pre.channel
    /\ ~Peak
    /\ Now - Pre.last_change_time_minutes >= CHANGE_BUDGET_MINUTES
    /\ log = "HysteresisBlocked"

(* C5: a process_request call that changes the record is accepted at least
   CHANGE_BUDGET_MINUTES after the previous change: it sets
   last_change_time_minutes to current_time_minutes, which is at least the
   old value plus CHANGE_BUDGET_MINUTES; and no call ever decreases the
   stored timestamp, whatever times the caller supplies. *)
C5_ChangesBudgetApart ==
    Requested =>
        /\ Post.last_change_time_minutes >= Pre.last_change_time_minutes
        /\ Post # Pre =>
             /\ Post.last_change_time_minutes = Now
             /\ Post.last_change_time_minutes
                  >= Pre.last_change_time_minutes + CHANGE_BUDGET_MINUTES

(* A second change of a device whose first change was accepted at 239 *)
C5_Witness ==
    /\ Requested
    /\ Pre.last_change_time_minutes = 239
    /\ Post.last_change_time_minutes = 500
    /\ Post.channel # Pre.channel

(* C6: when process_request accepts a request, the resulting record is the
   prior record with channel replaced by new_channel if present and
   power_db replaced by new_power_db if present; last_change_time_minutes
   is current_time_minutes if the channel or the power changed value, and
   keeps its prior value otherwise. *)
C6_AcceptedRecord ==
    Requested /\ Accepted =>
        /\ Post.id = Pre.id
        /\ Post.channel = IF has_value(Req.new_channel)
                          THEN value(Req.new_channel) ELSE Pre.channel
        /\ Post.power_db = IF has_value(Req.new_power_db)
                           THEN value(Req.new_power_db) ELSE Pre.power_db
        /\ Post.last_change_time_minutes =
             IF Post.channel # Pre.channel \/ Post.power_db # Pre.power_db
             THEN Now ELSE Pre.last_change_time_minutes

(* An accepted request that changes both the channel and the power *)
C6_Witness ==
    /\ Requested /\ Accepted
    /\ has_value(Req.new_channel) /\ has_value(Req.new_power_db)
    /\ Post.channel # Pre.channel
    /\ Post.power_db # Pre.power_db
    /\ Post.last_change_time_minutes = Now
    /\ Pre.last_change_time_minutes # Now

(* The request names at least one value and none differs from the record *)
NoOpRequest ==
    /\ has_value(Req.new_channel) \/ has_value(Req.new_power_db)
    /\ has_value(Req.new_channel) => value(Req.new_channel) = Pre.channel
    /\ has_value(Req.new_power_db) => value(Req.new_power_db) = Pre.power_db

(* C7, as stated: a request whose values (a channel, a power or both) all
   equal the device's current ones, and that passes the peak-hour and the
   change-budget check, is accepted and leaves last_change_time_minutes
   untouched, so that a request at the same time still passes the budget. *)
C7_Original ==
    Requested /\ NoOpRequest /\ PeakPasses
              /\ Elapsed >= CHANGE_BUDGET_MINUTES =>
        /\ Accepted
        /\ Post.last_change_time_minutes = Pre.last_change_time_minutes
        /\ Now - Post.last_change_time_minutes >= CHANGE_BUDGET_MINUTES

(* C7, amended: such a request is accepted, with the timestamp untouched
   and the budget still open at the same time, when it names no power;
   when it names the current power it is rejected with HysteresisBlocked
   (a step of 0 dB is below the threshold). *)
C7_NoOpAccepted ==
    Requested /\ NoOpRequest /\ PeakPasses
              /\ Elapsed >= CHANGE_BUDGET_MINUTES =>
        IF has_value(Req.new_power_db)
        THEN Rejected /\ log = "HysteresisBlocked"
        ELSE /\ Accepted
             /\ Post = Pre
             /\ Now - Post.last_change_time_minutes >= CHANGE_BUDGET_MINUTES

(* A request for the current channel alone, accepted at 500 on a device
   last changed at 239: the timestamp stays 239 *)
C7_Witness ==
    /\ Requested /\ NoOpRequest /\ Accepted
    /\ ~has_value(Req.new_power_db)
    /\ Pre.last_change_time_minutes = 239
    /\ Now = 500
    /\ Post.last_change_time_minutes = 239

(* C8: for an emergency request, the decision and the resulting record are
   those of the same call made with the opposite is_peak_hour: the flag has
   no influence, and the request is never rejected with PeakHourBlocked. *)
C8_EmergencyIgnoresPeak ==
    Requested /\ Req.is_emergency =>
        /\ log # "PeakHourBlocked"
        /\ \E b \in BudgetExceeded(Pre, Now) :
             LET other == Decision(Pre, Req, ~Peak, b)
             IN  /\ log = other
                 /\ ret = (other = "Accepted")
                 /\ Post = RecordAfter(Pre, Req, Now, other)

(* An emergency request accepted in peak hour that changes the record *)
C8_Witness ==
    /\ Requested /\ Req.is_emergency /\ Peak
    /\ Accepted
    /\ Post # Pre

(* C9: the emergency flag bypasses the peak-hour rule only: an emergency
   request with elapsed time below CHANGE_BUDGET_MINUTES is rejected with
   BudgetExceeded, and an emergency power request with a delta below
   HYSTERESIS_THRESHOLD_DB that passes the budget is rejected with
   HysteresisBlocked. *)
C9_EmergencyStillGuarded ==
    Requested /\ Req.is_emergency =>
        /\ Elapsed < CHANGE_BUDGET_MINUTES =>
             Rejected /\ log = "BudgetExceeded"
        /\ (/\ Elapsed >= CHANGE_BUDGET_MINUTES
            /\ has_value(Req.new_power_db)
            /\ PowerDelta < HYSTERESIS_THRESHOLD_DB) =>
             Rejected /\ log = "HysteresisBlocked"

(* An emergency request in peak hour, past the budget, stopped by the
   hysteresis rule *)
C9_Witness ==
    /\ Requested /\ Req.is_emergency /\ Peak
    /\ Elapsed >= CHANGE_BUDGET_MINUTES
    /\ has_value(Req.new_power_db)
    /\ PowerDelta < HYSTERESIS_THRESHOLD_DB
    /\ log = "HysteresisBlocked"

(* C10: a channel-only request (new_power_db absent) that passes the
   peak-hour check and whose elapsed time is at least
   CHANGE_BUDGET_MINUTES is accepted, whatever the device's power_db. *)
C10_ChannelOnlyAccepted ==
    Requested /\ ~has_value(Req.new_power_db) /\ PeakPasses
              /\ Elapsed >= CHANGE_BUDGET_MINUTES =>
        Accepted /\ log = "Accepted"

(* A channel-only request accepted exactly at the budget boundary *)
C10_Witness ==
    /\ Requested /\ ~has_value(Req.new_power_db)
    /\ has_value(Req.new_channel)
    /\ Elapsed = CHANGE_BUDGET_MINUTES
    /\ Accepted
    /\ Post.channel # Pre.channel

PolicyRejections == {"PeakHourBlocked", "BudgetExceeded", "HysteresisBlocked"}

(* C11, as stated: process_request called with an identifier that names no
   registered device fails with the hard error NotFound, which the caller
   can tell from every policy rejection (it does not get the false a policy
   rejection returns), and the store is left unchanged. *)
C11_Original ==
    call.op = "process_request" /\ call.ap_id \notin DOMAIN old_state =>
        /\ log = "NotFound"
        /\ ret # FALSE
        /\ network_state = old_state

(* C11, amended: such a call is rejected like a policy rejection, returning
   false, with a not-found message that no call on a registered device
   prints and that is none of the policy rejections' messages; it leaves
   the store unchanged: no record is created for that identifier. *)
C11_UnknownDeviceNotFound ==
    call.op = "process_request" =>
        /\ (log = "NotFound") <=> (call.ap_id \notin DOMAIN old_state)
        /\ log = "NotFound" =>
             /\ log \notin PolicyRejections
             /\ ret = FALSE
             /\ network_state = old_state
             /\ call.ap_id \notin DOMAIN network_state

(* A request that would pass every rule, made before the device exists *)
C11_Witness ==
    /\ call.op = "process_request"
    /\ call.ap_id \notin DOMAIN old_state
    /\ ~call.is_peak_hour
    /\ has_value(call.request.new_channel)
    /\ ~has_value(call.request.new_power_db)
    /\ log = "NotFound"

(* C12: get_ap_state returns the record stored for the identifier and never
   modifies the store; for an identifier with no record it fails
   (std::out_of_range) and creates no record for it. *)
C12_GetReadsOnly ==
    call.op = "get_ap_state" =>
        /\ network_state = old_state
        /\ IF call.ap_id \in DOMAIN old_state
           THEN log = "Returned" /\ ret = network_state[call.ap_id]
           ELSE log = "out_of_range" /\ call.ap_id \notin DOMAIN network_state

(* get_ap_state on an identifier that was never registered *)
C12_Witness ==
    /\ call.op = "get_ap_state"
    /\ call.ap_id \notin DOMAIN old_state
    /\ log = "out_of_range"
    /\ network_state = << >>

(* C17: on a registered device process_request accepts a request if and
   only if all three gates pass: (not is_peak_hour or is_emergency), and
   current_time_minutes - last_change_time_minutes >= CHANGE_BUDGET_MINUTES,
   and (new_power_db absent or abs(new_power_db - power_db) >=
   HYSTERESIS_THRESHOLD_DB); the boundaries 240 and 2 are accepted, and an
   accepted request with both fields absent changes nothing. *)
C17_AcceptedIffGatesPass ==
    Requested =>
        /\ Accepted <=>
             /\ ~Peak \/ Req.is_emergency
             /\ Elapsed >= CHANGE_BUDGET_MINUTES
             /\ \/ ~has_value(Req.new_power_db)
                \/ PowerDelta >= HYSTERESIS_THRESHOLD_DB
        /\ (/\ ~has_value(Req.new_channel) /\ ~has_value(Req.new_power_db)
            /\ ~Peak \/ Req.is_emergency
            /\ Elapsed >= CHANGE_BUDGET_MINUTES) =>
             Accepted /\ Post = Pre

(* A power step of exactly 2 dB accepted after exactly 240 minutes *)
C17_Witness ==
    /\ Requested /\ Accepted
    /\ Elapsed = 240
    /\ has_value(Req.new_power_db)
    /\ PowerDelta = 2
    /\ Post.power_db = value(Req.new_power_db)

(* C18: every rejection carries the reason of exactly one policy, the first
   that fails in the order time-window, change-budget, hysteresis; a request
   that passes the peak-hour check and fails both the budget and the
   hysteresis policy is rejected with BudgetExceeded. *)
C18_FirstFailingPolicy ==
    Requested /\ Rejected =>
        /\ log \in PolicyRejections
        /\ (log = "PeakHourBlocked") <=> (Peak /\ ~Req.is_emergency)
        /\ (log = "BudgetExceeded") <=>
             (PeakPasses /\ Elapsed < CHANGE_BUDGET_MINUTES)
        /\ (log = "HysteresisBlocked") <=>
             /\ PeakPasses
             /\ Elapsed >= CHANGE_BUDGET_MINUTES
             /\ has_value(Req.new_power_db)
             /\ PowerDelta < HYSTERESIS_THRESHOLD_DB

(* A request outside peak hour that fails the budget and the hysteresis rule *)
C18_Witness ==
    /\ Requested /\ Rejected
    /\ ~Peak /\ ~Req.is_emergency
    /\ Elapsed < CHANGE_BUDGET_MINUTES
    /\ has_value(Req.new_power_db)
    /\ PowerDelta < HYSTERESIS_THRESHOLD_DB
    /\ log = "BudgetExceeded"

(* C20: a process_request call that changes the stored power_db changes it
   by at least HYSTERESIS_THRESHOLD_DB, and every accepted request that
   carries a power value does change power_db, to that value, and sets
   last_change_time_minutes to current_time_minutes. *)
C20_PowerChangesAreLarge ==
    Requested =>
        /\ Post.power_db # Pre.power_db =>
             Abs(Post.power_db - Pre.power_db) >= HYSTERESIS_THRESHOLD_DB
        /\ Accepted /\ has_value(Req.new_power_db) =>
             /\ Post.power_db # Pre.power_db
             /\ Post.power_db = value(Req.new_power_db)
             /\ Post.last_change_time_minutes = Now

(* An accepted power decrease of 2 dB that comes with the current channel *)
C20_Witness ==
    /\ Requested /\ Accepted
    /\ has_value(Req.new_power_db)
    /\ has_value(Req.new_channel) /\ value(Req.new_channel) = Pre.channel
    /\ Post.power_db = Pre.power_db - 2
    /\ Post.last_change_time_minutes = Now

(* C13: add_ap always succeeds and leaves exactly the registered record,
   all four fields, under the record's identifier, replacing a record that
   was there with all of its change history; the identifiers of the store
   are the old ones and the registered one, and at all times every record
   of the store is filed under its own id. *)
C13_RegisterReplaces ==
    /\ \A i \in DOMAIN network_state : network_state[i].id = i
    /\ \A ap \in MultiAccessPoint : ENABLED add_ap(ap)
    /\ call.op = "add_ap" =>
         /\ log = "Added"
         /\ network_state[call.ap.id] = call.ap
         /\ DOMAIN network_state = DOMAIN old_state \cup {call.ap.id}

(* AP-002, last changed at 240, is registered again with the default
   timestamp while AP-001 is in the store *)
C13_Witness ==
    /\ call.op = "add_ap"
    /\ call.ap.id = "AP-002"
    /\ DOMAIN old_state = MultiIds
    /\ old_state["AP-002"].last_change_time_minutes = CHANGE_BUDGET_MINUTES
    /\ old_state["AP-002"].channel # call.ap.channel
    /\ network_state["AP-002"].last_change_time_minutes = DefaultLastChange

(* The device the last call was made for *)
Target == IF call.op = "add_ap" THEN call.ap.id ELSE call.ap_id

(* C15: a process_request call (accepted or rejected) or an add_ap call for
   one device never changes the record of another device, and the decision
   of a request is the one its own device's record gives, whatever the
   other records are. *)
C15_DevicesIndependent ==
    /\ call.op \in {"process_request", "add_ap"} =>
         \A j \in DOMAIN old_state \ {Target} :
            j \in DOMAIN network_state /\ network_state[j] = old_state[j]
    /\ Requested =>
         log = IF Peak /\ ~Req.is_emergency THEN "PeakHourBlocked"
               ELSE IF Elapsed < CHANGE_BUDGET_MINUTES THEN "BudgetExceeded"
               ELSE IF has_value(Req.new_power_db)
                        /\ PowerDelta < HYSTERESIS_THRESHOLD_DB
                    THEN "HysteresisBlocked"
               ELSE "Accepted"

(* A change of AP-002 accepted at 240, the very time AP-001 was last
   changed *)
C15_Witness ==
    /\ Requested /\ Accepted
    /\ call.ap_id = "AP-002"
    /\ "AP-001" \in DOMAIN old_state
    /\ old_state["AP-001"].last_change_time_minutes = Now
    /\ Post # Pre
    /\ network_state["AP-001"] = old_state["AP-001"]

(* What the reference scenario says of each of the seven calls: the return
   value, the reason, and the record of AP-001 after the call *)
Scenario ==
    << [ret |-> FALSE, log |-> "BudgetExceeded",
        channel |-> 6, power_db |-> 20, last_change_time_minutes |-> 0],
       [ret |-> TRUE, log |-> "Accepted",
        channel |-> 11, power_db |-> 20, last_change_time_minutes |-> 250],
       [ret |-> FALSE, log |-> "HysteresisBlocked",
        channel |-> 11, power_db |-> 20, last_change_time_minutes |-> 250],
       [ret |-> TRUE, log |-> "Accepted",
        channel |-> 11, power_db |-> 22, last_change_time_minutes |-> 500],
       [ret |-> FALSE, log |-> "PeakHourBlocked",
        channel |-> 11, power_db |-> 22, last_change_time_minutes |-> 500],
       [ret |-> TRUE, log |-> "Accepted",
        channel |-> 1, power_db |-> 22, last_change_time_minutes |-> 800],
       [ret |-> TRUE, log |-> "Accepted",
        channel |-> 6, power_db |-> 22, last_change_time_minutes |-> 1100] >>

ScenarioRecord(k) ==
    IF k = 0 THEN ap1
    ELSE [id |-> "AP-001", channel |-> Scenario[k].channel,
          power_db |-> Scenario[k].power_db,
          last_change_time_minutes |-> Scenario[k].last_change_time_minutes]

(* The last call was the k-th call of main(), made on the record the
   scenario gives for the end of the call before it *)
ScenarioStep(k) ==
    /\ Requested
    /\ call.ap_id = "AP-001"
    /\ Req = MainCalls[k].request
    /\ Now = MainCalls[k].current_time_minutes
    /\ Peak = MainCalls[k].is_peak_hour
    /\ Pre = ScenarioRecord(k - 1)

(* C14: the reference scenario is one trace: registering AP-001 with
   channel 6, power 20, last change 0 leaves that record, and each of the
   seven calls of main(), made on the record the scenario gives after the
   call before it, returns what the scenario says, for the reason it says,
   and leaves the record it says. *)
C14_ReferenceScenario ==
    /\ (call.op = "add_ap" /\ call.ap = ap1) =>
          network_state["AP-001"] = ScenarioRecord(0)
    /\ \A k \in 1..7 :
          ScenarioStep(k) =>
             /\ ret = Scenario[k].ret
             /\ log = Scenario[k].log
             /\ Post = ScenarioRecord(k)

(* The last call of main() was made on the record the sixth call left *)
C14_Witness ==
    /\ ScenarioStep(7)
    /\ Post.channel = 6
    /\ Post.last_change_time_minutes = 1100

(* C19: a device registered with the default last_change_time_minutes is
   never rejected by the change-budget rule on its first request, for
   every current_time_minutes >= 0 of the range of int. *)
C19_FirstRequestNeverBudgetBlocked ==
    (/\ Requested
     /\ Pre.last_change_time_minutes = DefaultLastChange
     /\ Now >= 0) =>
        log # "BudgetExceeded"

(* The call of thread t was accepted and changed the record *)
AcceptedChange(t) ==
    /\ threads[t].pc = "done"
    /\ threads[t].ret = TRUE
    /\ threads[t].changed

(* C16: when two process_request calls for the same device run
   concurrently, it never happens that both observe the same pre-change
   timestamp and both are accepted as state-changing requests less than
   CHANGE_BUDGET_MINUTES apart. *)
C16_CallsAtomic ==
    \A t1, t2 \in Threads :
        (/\ t1 # t2
         /\ AcceptedChange(t1) /\ AcceptedChange(t2)
         /\ threads[t1].ap_id = threads[t2].ap_id
         /\ threads[t1].observed = threads[t2].observed) =>
            Abs(threads[t1].current_time_minutes
                  - threads[t2].current_time_minutes)
              >= CHANGE_BUDGET_MINUTES

====
